---- MODULE Spec2Model ----
(***************************************************************************)
(* Model of src/concat.py: scan parquets/no_wind/sujetos, read every       *)
(* '*.parquet' entry of every NF*/PF* folder, concatenate, project on      *)
(* columns_to_keep, write all_data.parquet, impute the feature columns     *)
(* with their medians, write all_data_imputed.parquet.                     *)
(*                                                                         *)
(* Names are sequences of characters, so that str.startswith and           *)
(* str.endswith are computed on the characters.  A cell is <<>> (missing,  *)
(* NaN) or <<v>>; a numeric value x is stored as the integer 2x, so that   *)
(* the mean of the two middle values of a median is exact.                 *)
(***************************************************************************)
EXTENDS Integers, Sequences, FiniteSets, TLC

\* Largest number of rows of one input file.
MaxRows == 2

\* Largest number of runs of the script over the same tree (SpecRerun).
MaxRuns == 2

----------------------------------------------------------------------------
\* Strings of the script

StartsWith(s, p) == Len(s) >= Len(p) /\ SubSeq(s, 1, Len(p)) = p

EndsWith(s, p) == Len(s) >= Len(p) /\ SubSeq(s, Len(s) - Len(p) + 1, Len(s)) = p

NF == <<"N", "F">>

PF == <<"P", "F">>

DotParquet == <<".", "p", "a", "r", "q", "u", "e", "t">>

columns_to_keep ==
    << "ts", "subject_id", "week", "date", "cppall", "zcrall", "normpeakall",
       "spectralTiltall", "LHratioall", "H1H2all", "periodicity", "level",
       "freq", "dBcms2", "cppall_2048", "acflow", "mfdr", "oq", "naq", "h1h2",
       "voicedRMS" >>

\* The feature list with voicedRMS in it.
featuresWithVoicedRMS ==
    << "cppall", "zcrall", "normpeakall", "spectralTiltall", "LHratioall",
       "H1H2all", "periodicity", "level", "freq", "dBcms2", "cppall_2048",
       "acflow", "mfdr", "oq", "naq", "h1h2", "voicedRMS" >>

features ==
    << "cppall", "zcrall", "normpeakall", "spectralTiltall", "LHratioall",
       "H1H2all", "periodicity", "level", "freq", "dBcms2", "cppall_2048",
       "acflow", "mfdr", "oq", "naq", "h1h2" >>

Range(s) == {s[i] : i \in 1..Len(s)}

----------------------------------------------------------------------------
\* Tables (pandas DataFrames) and cells

NaN == <<>>

IsNa(x) == x = NaN

\* A table: its column labels in order, and its rows in index order.  A row
\* carries its cells and, as a ghost field, the place it was read from.
MkTable(cols, rows) == [cols |-> cols, rows |-> rows]

EmptyTable == MkTable(<<>>, <<>>)

----------------------------------------------------------------------------
\* The input trees the runs are drawn from

Reverse(s) == [i \in 1..Len(s) |-> s[Len(s) + 1 - i]]

Without(s, c) == SelectSeq(s, LAMBDA x : x # c)

IndexOf(s, c) == CHOOSE i \in 1..Len(s) : s[i] = c

\* Three kinds of recording file.  "A" carries the listed columns in the
\* listed order and one more; "B" carries them in the reverse order behind
\* another one; "C" lacks the column naq.
Shapes == {"A", "B", "C"}

ShapeCols(shape) ==
    CASE shape = "A" -> columns_to_keep \o <<"extra">>
      [] shape = "B" -> <<"f0">> \o Reverse(columns_to_keep)
      [] shape = "C" -> Without(columns_to_keep, "naq")

ShapeOff(shape) == CASE shape = "A" -> 0 [] shape = "B" -> 1 [] shape = "C" -> 2

\* The cell of row i (1-based) and column c of a file of the given shape.
\* Over an "A" file of two rows followed by a "B" file of two rows, cppall
\* reads 1, 3, missing, 7 and zcrall reads 2, 4, missing, missing (stored
\* doubled); oq is missing in every row of an "A" file.
ShapeCell(shape, i, c) ==
    LET off == ShapeOff(shape) IN
    CASE c = "cppall" ->
           IF shape = "B" THEN (IF i = 1 THEN NaN ELSE <<2 * (2 * i + 3)>>)
           ELSE <<2 * (2 * i - 1 + off)>>
      [] c = "zcrall" -> IF shape = "B" THEN NaN ELSE <<2 * (2 * i + off)>>
      [] c = "oq" -> IF shape = "A" THEN NaN ELSE <<2 * (i + off)>>
      [] c = "voicedRMS" -> IF i = 1 THEN NaN ELSE <<2 * i + off>>
      [] c = "date" -> IF shape = "B" /\ i = 1 THEN NaN ELSE <<100 + i>>
      [] c = "subject_id" -> <<off>>
      [] c \in {"ts", "week", "extra", "f0"} -> <<10 * off + i>>
      [] OTHER ->
           LET k == IndexOf(features, c) IN
           IF (i + k + off) % 4 = 0 THEN NaN
           ELSE <<2 * ((k * i + off) % 5)>>

\* The content of a recording file: its columns and, per row, its cells.
FileTable(shape, n) ==
    MkTable(ShapeCols(shape),
            [i \in 1..n |-> [c \in Range(ShapeCols(shape)) |-> ShapeCell(shape, i, c)]])

\* Directory entries.  A regular file is decodable (a parquet table) or not;
\* a directory has entries of its own.
RegFile(table) ==
    [isdir |-> FALSE, decodable |-> TRUE, table |-> table, entries |-> <<>>]

BadFile ==
    [isdir |-> FALSE, decodable |-> FALSE, table |-> EmptyTable, entries |-> <<>>]

Dir(entries) ==
    [isdir |-> TRUE, decodable |-> FALSE, table |-> EmptyTable, entries |-> entries]

RecordingFiles ==
    {BadFile} \cup {RegFile(FileTable(shape, n)) : shape \in Shapes, n \in 0..MaxRows}

Name(stem, ext) == stem \o ext

NF1 == Name(NF, <<"1">>)

PF2 == Name(PF, <<"2">>)

XX3 == <<"X", "X", "3">>

xNF == Name(<<"x">>, NF)

NFfile == Name(NF, DotParquet)

aParquet == Name(<<"a">>, DotParquet)

bParquet == Name(<<"b">>, DotParquet)

aParquetBak == Name(aParquet, <<".", "b", "a", "k">>)

subDir == <<"s", "u", "b">>

partParquet == Name(<<"p">>, DotParquet)

Only(name, entry) == [n \in {name} |-> entry]

\* What lies beside the recording file of a folder: nothing, a file of
\* another extension, a subdirectory holding a recording file, or a
\* directory that is itself named *.parquet (a partitioned dataset) and
\* holds a recording file of one row.
Besides ==
    { <<>>,
      Only(aParquetBak, RegFile(FileTable("A", 1))),
      Only(subDir, Dir(Only(aParquet, RegFile(FileTable("A", 1))))),
      Only(partParquet, Dir(Only(bParquet, RegFile(FileTable("A", 1))))) }

\* What lies beside the subject folders under the root: nothing, a folder
\* of another prefix, a folder with NF inside its name, or a regular file
\* whose name starts with NF.
RootBesides ==
    { <<>>,
      Only(XX3, Dir(Only(aParquet, RegFile(FileTable("A", 1))))),
      Only(xNF, Dir(Only(aParquet, RegFile(FileTable("A", 1))))),
      Only(NFfile, RegFile(FileTable("A", 1))) }

\* The besides without the directory named *.parquet.
PlainBesides ==
    {b \in Besides : \A n \in DOMAIN b : b[n].isdir => ~EndsWith(n, DotParquet)}

NFFoldersOf(besides) ==
    {Only(NF1, Dir(b)) : b \in besides}
      \cup {Only(NF1, Dir(Only(aParquet, f) @@ b)) : f \in RecordingFiles, b \in besides}

NFFolders == NFFoldersOf(Besides)

PFFolders ==
    {<<>>, Only(PF2, Dir(<<>>))}
      \cup {Only(PF2, Dir(Only(bParquet, f))) : f \in RecordingFiles}

\* base_path is a missing path, a regular file, or a directory.
Trees ==
    {[kind |-> k, entries |-> <<>>] : k \in {"missing", "file"}}
      \cup {[kind |-> "dir", entries |-> nf @@ pf @@ rb] :
              nf \in NFFolders \cup {<<>>}, pf \in PFFolders, rb \in RootBesides}

\* The trees the script is run over more than once: those with nothing
\* beside the subject folders under the root and no directory named
\* *.parquet.
TreesRerun ==
    {[kind |-> k, entries |-> <<>>] : k \in {"missing", "file"}}
      \cup {[kind |-> "dir", entries |-> nf @@ pf] :
              nf \in NFFoldersOf(PlainBesides) \cup {<<>>}, pf \in PFFolders}

----------------------------------------------------------------------------
\* Paths of the script

base_path == "parquets/no_wind/sujetos"

RawPath == "parquets/no_wind/all_data.parquet"

ImputedPath == "parquets/no_wind/all_data_imputed.parquet"

OutPaths == {RawPath, ImputedPath}

\* os.path.join(base_path, name, ...) as the sequence of its components.
Join(path, name) == Append(path, name)

----------------------------------------------------------------------------
\* Library operations the script calls

\* The orders os.listdir may return the names of a directory in.
Listings(entries) ==
    LET names == DOMAIN entries
        n == Cardinality(names)
    IN  {s \in [1..n -> names] : \A i, j \in 1..n : s[i] = s[j] => i = j}

\* The rows of a decoded table, each with the place it was read from.
Rows(path, table) ==
    [i \in 1..Len(table.rows) |-> [origin |-> <<path, i>>, cells |-> table.rows[i]]]

\* ReadParquet with a file that cannot be decoded read as a frame of no
\* columns and no rows.
ReadParquetLenient(path, entry) ==
    IF ~entry.isdir
    THEN [ok |-> TRUE, df |-> MkTable(entry.table.cols, Rows(path, entry.table))]
    ELSE LET inner == CHOOSE n \in DOMAIN entry.entries : TRUE
             sub == entry.entries[inner]
         IN  [ok |-> TRUE,
              df |-> MkTable(sub.table.cols, Rows(Join(path, inner), sub.table))]

\* pd.read_parquet(file_path).  A regular file decodes to its table or
\* raises.  A directory is read as a partitioned dataset: the rows of the
\* recording file it holds.
ReadParquet(path, entry) ==
    IF ~entry.isdir
    THEN [ok |-> entry.decodable,
          df |-> MkTable(entry.table.cols, Rows(path, entry.table))]
    ELSE LET inner == CHOOSE n \in DOMAIN entry.entries : TRUE
             sub == entry.entries[inner]
         IN  [ok |-> ~sub.isdir /\ sub.decodable,
              df |-> MkTable(sub.table.cols, Rows(Join(path, inner), sub.table))]

\* The labels of cols followed by those of more that cols lacks.
AppendNew(cols, more) == cols \o SelectSeq(more, LAMBDA c : c \notin Range(cols))

RECURSIVE UnionCols(_)
UnionCols(frames) ==
    IF frames = <<>> THEN <<>>
    ELSE AppendNew(UnionCols(SubSeq(frames, 1, Len(frames) - 1)),
                   frames[Len(frames)].cols)

\* A row reindexed on cols: a label the row lacks reads missing.
Reindex(row, cols) ==
    [origin |-> row.origin,
     cells |-> [c \in Range(cols) |->
                  IF c \in DOMAIN row.cells THEN row.cells[c] ELSE NaN]]

RECURSIVE ConcatRows(_, _)
ConcatRows(frames, cols) ==
    IF frames = <<>> THEN <<>>
    ELSE ConcatRows(SubSeq(frames, 1, Len(frames) - 1), cols)
           \o [i \in 1..Len(frames[Len(frames)].rows) |->
                 Reindex(frames[Len(frames)].rows[i], cols)]

\* pd.concat(dfs, ignore_index=True) of a non-empty list: the rows of the
\* frames in list order under a fresh index, over the union of the columns.
PdConcat(frames) ==
    MkTable(UnionCols(frames), ConcatRows(frames, UnionCols(frames)))

\* Select with the columns left in the order the frame carries them.
SelectInFrameOrder(df, labels) ==
    MkTable(SelectSeq(df.cols, LAMBDA c : c \in Range(labels)),
            [i \in 1..Len(df.rows) |->
               [origin |-> df.rows[i].origin,
                cells |-> [c \in Range(labels) |-> df.rows[i].cells[c]]]])

\* df[labels] with every label present: the listed columns in list order.
Select(df, labels) ==
    MkTable(labels,
            [i \in 1..Len(df.rows) |->
               [origin |-> df.rows[i].origin,
                cells |-> [c \in Range(labels) |-> df.rows[i].cells[c]]]])

Column(df, c) == [i \in 1..Len(df.rows) |-> df.rows[i].cells[c]]

\* Median with the lower of the two middle values for an even count.
MedianLowerMiddle(col) ==
    LET obs == SelectSeq(col, LAMBDA x : ~IsNa(x))
        s == SortSeq(obs, LAMBDA x, y : x[1] < y[1])
        n == Len(s)
    IN  IF n = 0 THEN NaN ELSE s[(n + 1) \div 2]

\* The median of the values of a column that are not missing; missing when
\* there is none.
Median(col) ==
    LET obs == SelectSeq(col, LAMBDA x : ~IsNa(x))
        s == SortSeq(obs, LAMBDA x, y : x[1] < y[1])
        n == Len(s)
    IN  IF n = 0 THEN NaN
        ELSE IF n % 2 = 1 THEN s[(n + 1) \div 2]
        ELSE <<(s[n \div 2][1] + s[n \div 2 + 1][1]) \div 2>>

\* SimpleImputer(strategy='median').fit(X).statistics_
Statistics(X) == [c \in Range(X.cols) |-> Median(Column(X, c))]

\* Transform with the missing values of the valid columns left missing.
TransformKeepMissing(X) ==
    LET valid == SelectSeq(X.cols, LAMBDA c : ~IsNa(Median(Column(X, c))))
    IN  [i \in 1..Len(X.rows) |-> [k \in 1..Len(valid) |-> X.rows[i].cells[valid[k]]]]

\* SimpleImputer.transform(X): an array, one positional row per row of X,
\* over the columns of X whose statistic is defined, each missing value
\* replaced by the statistic of its column.
Transform(X) ==
    LET stat == Statistics(X)
        valid == SelectSeq(X.cols, LAMBDA c : ~IsNa(stat[c]))
    IN  [i \in 1..Len(X.rows) |->
           [k \in 1..Len(valid) |->
              IF IsNa(X.rows[i].cells[valid[k]]) THEN stat[valid[k]]
              ELSE X.rows[i].cells[valid[k]]]]

\* The width of the array, X_imputed.shape[1].
Width(X) ==
    Len(SelectSeq(X.cols, LAMBDA c : ~IsNa(Statistics(X)[c])))

\* pd.DataFrame(X_imputed, columns=labels): the labels name the array's
\* columns by position.
DataFrame(array, labels) ==
    MkTable(labels,
            [i \in 1..Len(array) |->
               [origin |-> i, cells |-> [c \in Range(labels) |->
                                           array[i][IndexOf(labels, c)]]]])

\* df[labels] = other[labels], both over the same fresh index: the cells
\* of the listed columns are taken from other, row by row.
Assign(df, labels, other) ==
    MkTable(df.cols,
            [i \in 1..Len(df.rows) |->
               [origin |-> df.rows[i].origin,
                cells |-> [c \in Range(df.cols) |->
                             IF c \in Range(labels) THEN other.rows[i].cells[c]
                             ELSE df.rows[i].cells[c]]]])

\* What to_parquet stores: the columns and the cells, not the ghost field.
Stored(df) == MkTable(df.cols, [i \in 1..Len(df.rows) |-> df.rows[i].cells])

----------------------------------------------------------------------------
\* The state of a run

VARIABLES
    tree,         \* the directory tree under base_path (never written)
    out,          \* the two output files
    before,       \* ghost: the output files as they were when the run started
    run,          \* ghost: the number of the run
    pc,           \* the statement the script is at
    names,        \* the folder names os.listdir(base_path) has yet to yield
    folder_name,  \* the loop variable of the outer loop
    file_names,   \* the file names os.listdir(folder_path) has yet to yield
    dfs,          \* the list of frames read
    final_df,     \* the consolidated, then projected, then imputed frame
    err,          \* the exception that ended the run, "none" if none
    console,      \* what the script printed
    writes        \* ghost: the paths the run wrote, in order

vars ==
    << tree, out, before, run, pc, names, folder_name, file_names, dfs,
       final_df, err, console, writes >>

\* An output file: absent, left there by something before the first run
\* ("stale"), or written by a run.
Absent == [state |-> "absent", table |-> EmptyTable]

Stale == [state |-> "stale", table |-> EmptyTable]

Written(df) == [state |-> "written", table |-> Stored(df)]

Init ==
    /\ tree \in Trees
    /\ out \in {[p \in OutPaths |-> Absent], [p \in OutPaths |-> Stale]}
    /\ before = out
    /\ run = 1
    /\ pc = "listdir"
    /\ names = <<>>
    /\ folder_name = <<>>
    /\ file_names = <<>>
    /\ dfs = <<>>
    /\ final_df = EmptyTable
    /\ err = "none"
    /\ console = <<>>
    /\ writes = <<>>

\* An uncaught exception: the script stops where it is.
Raise(e) ==
    /\ err' = e
    /\ pc' = "aborted"

\* Line 12, the call: os.listdir(base_path) raises on a missing path or a
\* regular file, and otherwise yields the names in some order.
ListBase ==
    /\ pc = "listdir"
    /\ \/ /\ tree.kind = "missing"
          /\ Raise("PathNotFound")
          /\ UNCHANGED names
       \/ /\ tree.kind = "file"
          /\ Raise("NotADirectory")
          /\ UNCHANGED names
       \/ /\ tree.kind = "dir"
          /\ \E order \in Listings(tree.entries) : names' = order
          /\ pc' = "folders"
          /\ UNCHANGED err
    /\ UNCHANGED << tree, out, before, run, folder_name, file_names, dfs,
                    final_df, console, writes >>

\* Lines 14-15: the folder is scanned when its name starts with NF or PF
\* and it is a directory.
Scanned(name) ==
    /\ StartsWith(name, NF) \/ StartsWith(name, PF)
    /\ tree.entries[name].isdir

\* Lines 12-16: one turn of the outer loop.
NextFolder ==
    /\ pc = "folders"
    /\ \/ /\ names = <<>>
          /\ pc' = "concat"
          /\ UNCHANGED << names, folder_name, file_names >>
       \/ /\ names # <<>>
          /\ folder_name' = Head(names)
          /\ names' = Tail(names)
          /\ \/ /\ Scanned(Head(names))
                /\ \E order \in Listings(tree.entries[Head(names)].entries) :
                      file_names' = order
                /\ pc' = "files"
             \/ /\ ~Scanned(Head(names))
                /\ UNCHANGED << pc, file_names >>
    /\ UNCHANGED << tree, out, before, run, dfs, final_df, err, console, writes >>

\* Line 17: the entry is read when its name ends in .parquet.
Read(name) == EndsWith(name, DotParquet)

\* Lines 16-20: one turn of the inner loop.
NextFile ==
    /\ pc = "files"
    /\ \/ /\ file_names = <<>>
          /\ pc' = "folders"
          /\ UNCHANGED << file_names, dfs, err >>
       \/ /\ file_names # <<>>
          /\ file_names' = Tail(file_names)
          /\ LET file_name == Head(file_names)
                 file_path == Join(Join(<<base_path>>, folder_name), file_name)
                 got == ReadParquet(file_path,
                                    tree.entries[folder_name].entries[file_name])
             IN  \/ /\ ~Read(file_name)
                    /\ UNCHANGED << pc, dfs, err >>
                 \/ /\ Read(file_name)
                    /\ got.ok
                    /\ dfs' = Append(dfs, got.df)
                    /\ UNCHANGED << pc, err >>
                 \/ /\ Read(file_name)
                    /\ ~got.ok
                    /\ Raise("DecodeError")
                    /\ UNCHANGED dfs
    /\ UNCHANGED << tree, out, before, run, names, folder_name, final_df,
                    console, writes >>

\* Concat with an empty list concatenated to a frame of no columns and no
\* rows.
ConcatEmptyFrame ==
    /\ pc = "concat"
    /\ final_df' = IF dfs = <<>> THEN EmptyTable ELSE PdConcat(dfs)
    /\ pc' = "project"
    /\ UNCHANGED << tree, out, before, run, names, folder_name, file_names,
                    dfs, err, console, writes >>

\* Line 23: pd.concat raises on an empty list.
Concat ==
    /\ pc = "concat"
    /\ \/ /\ dfs = <<>>
          /\ Raise("NoObjectsToConcatenate")
          /\ UNCHANGED final_df
       \/ /\ dfs # <<>>
          /\ final_df' = PdConcat(dfs)
          /\ pc' = "project"
          /\ UNCHANGED err
    /\ UNCHANGED << tree, out, before, run, names, folder_name, file_names,
                    dfs, console, writes >>

\* Line 27: the projection raises when a listed column is absent.
Project ==
    /\ pc = "project"
    /\ \/ /\ ~(Range(columns_to_keep) \subseteq Range(final_df.cols))
          /\ Raise("MissingColumn")
          /\ UNCHANGED final_df
       \/ /\ Range(columns_to_keep) \subseteq Range(final_df.cols)
          /\ final_df' = Select(final_df, columns_to_keep)
          /\ pc' = "write_raw"
          /\ UNCHANGED err
    /\ UNCHANGED << tree, out, before, run, names, folder_name, file_names,
                    dfs, console, writes >>

\* ToParquet with every frame written to the one path.
ToParquetOnePath(df, path) ==
    /\ out' = [out EXCEPT ![RawPath] = [state |-> "written", table |-> Stored(df)]]
    /\ writes' = Append(writes, RawPath)

\* ToParquet with the rows appended to those the file holds.
ToParquetAppend(df, path) ==
    /\ out' = [out EXCEPT ![path] =
                 [state |-> "written",
                  table |-> MkTable(df.cols, out[path].table.rows \o Stored(df).rows)]]
    /\ writes' = Append(writes, path)

\* df.to_parquet(path): the file at path is replaced by the frame.
ToParquet(df, path) ==
    /\ out' = [out EXCEPT ![path] = Written(df)]
    /\ writes' = Append(writes, path)

\* WriteRaw with the optional save left out.
WriteRawSkipped ==
    /\ pc = "write_raw"
    /\ pc' = "report"
    /\ UNCHANGED << tree, out, before, run, names, folder_name, file_names, dfs,
                    final_df, err, console, writes >>

\* Line 33.
WriteRaw ==
    /\ pc = "write_raw"
    /\ ToParquet(final_df, RawPath)
    /\ pc' = "report"
    /\ UNCHANGED << tree, before, run, names, folder_name, file_names, dfs,
                    final_df, err, console >>

\* The number of missing cells of each column, df.isna().sum().
IsnaSum(df) ==
    [c \in Range(df.cols) |->
       Cardinality({i \in 1..Len(df.rows) : IsNa(df.rows[i].cells[c])})]

\* Lines 35-37: the three prints.
Report ==
    /\ pc = "report"
    /\ console' = console \o
          << [files |-> Len(dfs), shape |-> <<Len(final_df.rows), Len(final_df.cols)>>],
             Stored(MkTable(final_df.cols,
                            SubSeq(final_df.rows, 1,
                                   IF Len(final_df.rows) < 5 THEN Len(final_df.rows) ELSE 5))),
             IsnaSum(Select(final_df, columns_to_keep)) >>
    /\ pc' = "impute"
    /\ UNCHANGED << tree, out, before, run, names, folder_name, file_names,
                    dfs, final_df, err, writes >>

\* Lines 38-43.  fit_transform raises on a frame of no rows; the array it
\* returns lacks the columns that have no observed value, and then the
\* DataFrame constructor raises on the width.
Impute ==
    /\ pc = "impute"
    /\ LET X == Select(final_df, features) IN
       \/ /\ X.rows = <<>>
          /\ Raise("NoSamples")
          /\ UNCHANGED final_df
       \/ /\ X.rows # <<>>
          /\ Width(X) # Len(features)
          /\ Raise("UndefinedMedian")
          /\ UNCHANGED final_df
       \/ /\ X.rows # <<>>
          /\ Width(X) = Len(features)
          /\ final_df' = Assign(final_df, features,
                                Select(DataFrame(Transform(X), features), features))
          /\ pc' = "write_imputed"
          /\ UNCHANGED err
    /\ UNCHANGED << tree, out, before, run, names, folder_name, file_names,
                    dfs, console, writes >>

\* Line 45.
WriteImputed ==
    /\ pc = "write_imputed"
    /\ ToParquet(final_df, ImputedPath)
    /\ pc' = "done"
    /\ UNCHANGED << tree, before, run, names, folder_name, file_names, dfs,
                    final_df, err, console >>

Next ==
    \/ ListBase
    \/ NextFolder
    \/ NextFile
    \/ Concat
    \/ Project
    \/ WriteRaw
    \/ Report
    \/ Impute
    \/ WriteImputed

Spec == Init /\ [][Next]_vars

\* The script is run again over the same tree: a fresh process, the output
\* files as the run before left them.
Rerun ==
    /\ pc \in {"done", "aborted"}
    /\ run < MaxRuns
    /\ run' = run + 1
    /\ before' = out
    /\ pc' = "listdir"
    /\ names' = <<>>
    /\ folder_name' = <<>>
    /\ file_names' = <<>>
    /\ dfs' = <<>>
    /\ final_df' = EmptyTable
    /\ err' = "none"
    /\ console' = <<>>
    /\ writes' = <<>>
    /\ UNCHANGED << tree, out >>

NextRerun == Next \/ Rerun

InitRerun ==
    /\ Init
    /\ tree \in TreesRerun

SpecRerun == InitRerun /\ [][NextRerun]_vars

----------------------------------------------------------------------------
\* Properties

\* The statements after the concatenation succeeded, in order.
AfterConcat == {"project", "write_raw", "report", "impute", "write_imputed", "done"}

AfterProject == AfterConcat \ {"project"}

AfterImpute == {"write_imputed", "done"}

\* The folders of the tree that are directories named NF* or PF*.
SubjectFolders ==
    {f \in DOMAIN tree.entries :
       /\ tree.entries[f].isdir
       /\ f[1] \in {"N", "P"} /\ Len(f) >= 2 /\ f[2] = "F"}

HasParquetName(n) ==
    Len(n) >= 8 /\ [k \in 1..8 |-> n[Len(n) - 8 + k]] = <<".", "p", "a", "r", "q", "u", "e", "t">>

\* The discovered files: the regular files named *.parquet directly inside
\* a subject folder, as <<folder, file>>.
DiscoveredFiles ==
    UNION {{<<f, n>> : n \in {m \in DOMAIN tree.entries[f].entries :
                                /\ HasParquetName(m)
                                /\ ~tree.entries[f].entries[m].isdir}} :
           f \in SubjectFolders}

FileAt(p) == tree.entries[p[1]].entries[p[2]]

\* One <<path, row number>> per row of each discovered file.
DiscoveredRows ==
    UNION {{<< <<base_path, p[1], p[2]>>, i >> : i \in 1..Len(FileAt(p).table.rows)} :
           p \in DiscoveredFiles}

Origins(df) == {df.rows[i].origin : i \in 1..Len(df.rows)}

\* C1: the consolidated table holds exactly one row for each row of each
\* discovered file and nothing else, a file being discovered iff it is named
\* *.parquet and sits directly inside a child directory of the root named
\* NF* or PF*; rows of files elsewhere, or below the first level, contribute
\* nothing.
C1_RowConservation ==
    pc = "project" =>
      /\ Origins(final_df) = DiscoveredRows
      /\ Len(final_df.rows) = Cardinality(DiscoveredRows)

\* C1 on the trees in which no directory is named *.parquet: there the
\* statement holds.
C1_RowConservationOfFiles ==
    (pc = "project" /\ \A f \in SubjectFolders :
                         \A n \in DOMAIN tree.entries[f].entries :
                            HasParquetName(n) => ~tree.entries[f].entries[n].isdir) =>
      /\ Origins(final_df) = DiscoveredRows
      /\ Len(final_df.rows) = Cardinality(DiscoveredRows)

\* The two output files as tables of cells.
Raw == out[RawPath].table

Imputed == out[ImputedPath].table

FileCol(table, c) == [i \in 1..Len(table.rows) |-> table.rows[i][c]]

\* The rows of a column that hold a value.
Observed(col) == {i \in DOMAIN col : col[i] # <<>>}

\* The k-th smallest observed value of a column, by counting: fewer than k
\* observed values lie below it and at least k do not exceed it.
Kth(col, k) ==
    CHOOSE v \in {col[i][1] : i \in Observed(col)} :
      /\ Cardinality({i \in Observed(col) : col[i][1] < v}) < k
      /\ k <= Cardinality({i \in Observed(col) : col[i][1] <= v})

\* Twice the median of the observed values of a column: the sum of the two
\* middle values, which are one and the same value when the count is odd.
TwiceMedian(col) ==
    LET n == Cardinality(Observed(col))
    IN  Kth(col, (n + 1) \div 2) + Kth(col, n \div 2 + 1)

\* C2: in the imputed output, every cell of a feature column that has an
\* observed value equals the raw cell when that is observed, and otherwise
\* the median of the observed values of that column of the raw output
\* (the middle value, or the mean of the two middle values).
C2_MedianImputation ==
    pc = "done" =>
      \A c \in Range(features) :
        LET col == FileCol(Raw, c) IN
        Observed(col) # {} =>
          \A i \in 1..Len(Imputed.rows) :
            IF i \in Observed(col) THEN Imputed.rows[i][c] = col[i]
            ELSE /\ Imputed.rows[i][c] # <<>>
                 /\ 2 * Imputed.rows[i][c][1] = TwiceMedian(col)

\* A run over 1, 3, missing, 7 in cppall and 2, 4, missing, missing in zcrall
\* (stored doubled) that imputed 3 in both.
C2_Witness ==
    /\ pc = "done"
    /\ FileCol(Raw, "cppall") = << <<2>>, <<6>>, <<>>, <<14>> >>
    /\ FileCol(Imputed, "cppall") = << <<2>>, <<6>>, <<6>>, <<14>> >>
    /\ FileCol(Raw, "zcrall") = << <<4>>, <<8>>, <<>>, <<>> >>
    /\ FileCol(Imputed, "zcrall") = << <<4>>, <<8>>, <<6>>, <<6>> >>

\* A feature column has an observed value in some frame read.
ObservedSomewhere(c) ==
    \E k \in 1..Len(dfs) : \E i \in 1..Len(dfs[k].rows) :
      c \in DOMAIN dfs[k].rows[i].cells /\ dfs[k].rows[i].cells[c] # <<>>

\* C3: once the imputation is done, a feature column that has an observed
\* value in the consolidated table has no missing value in the imputed
\* table, nor in the imputed output once that is written.
C3_ImputationTotality ==
    /\ pc \in AfterImpute =>
         \A c \in Range(features) :
           ObservedSomewhere(c) =>
             \A i \in 1..Len(final_df.rows) : final_df.rows[i].cells[c] # <<>>
    /\ pc = "done" =>
         \A c \in Range(features) :
           ObservedSomewhere(c) =>
             \A i \in 1..Len(Imputed.rows) : Imputed.rows[i][c] # <<>>

\* The imputed output is written and fills a cell the raw output lacks.
C3_Witness ==
    /\ pc = "done"
    /\ \E i \in 1..Len(Raw.rows) : Raw.rows[i]["oq"] = <<>> /\ Imputed.rows[i]["oq"] # <<>>

NonFeatureColumns == {"ts", "subject_id", "week", "date", "voicedRMS"}

\* C4: the imputed output has the rows of the raw output, as many and in
\* the same order, under the same columns, and every column outside the
\* feature subset (ts, subject_id, week, date, voicedRMS) holds row for row
\* what the raw output holds, missing values included.
C4_ImputationFrame ==
    pc = "done" =>
      /\ Len(Imputed.rows) = Len(Raw.rows)
      /\ Imputed.cols = Raw.cols
      /\ NonFeatureColumns \subseteq Range(Raw.cols)
      /\ NonFeatureColumns \cap Range(features) = {}
      /\ \A i \in 1..Len(Raw.rows) : \A c \in NonFeatureColumns :
           Imputed.rows[i][c] = Raw.rows[i][c]
      /\ \A i \in 1..Len(Raw.rows) : \A c \in Range(Raw.cols) :
           Raw.rows[i][c] # <<>> => Imputed.rows[i][c] = Raw.rows[i][c]

\* The imputation changed a feature cell and left a missing voicedRMS and
\* a missing date as they were.
C4_Witness ==
    /\ pc = "done"
    /\ Imputed # Raw
    /\ \E i \in 1..Len(Raw.rows) :
         Raw.rows[i]["voicedRMS"] = <<>> /\ Imputed.rows[i]["voicedRMS"] = <<>>
    /\ \E i \in 1..Len(Raw.rows) :
         Raw.rows[i]["date"] = <<>> /\ Imputed.rows[i]["date"] = <<>>

\* C5: once the projection succeeded, the projected table, and the raw
\* output once written, have exactly the 21 listed columns in the listed
\* order, whatever columns the files carry and in whatever order.
C5_ColumnCompleteness ==
    /\ Len(columns_to_keep) = 21
    /\ pc \in AfterProject =>
         /\ final_df.cols = columns_to_keep
         /\ \A i \in 1..Len(final_df.rows) :
              DOMAIN final_df.rows[i].cells = Range(columns_to_keep)
    /\ out[RawPath].state = "written" =>
         /\ Raw.cols = columns_to_keep
         /\ \A i \in 1..Len(Raw.rows) : DOMAIN Raw.rows[i] = Range(columns_to_keep)

\* The raw output is written from frames that carry the columns in another
\* order, with columns that are not listed.
C5_Witness ==
    /\ pc = "report"
    /\ dfs[1].cols[1] = "f0"
    /\ dfs[1].cols[2] = "voicedRMS"
    /\ Raw.cols = columns_to_keep

BeforeConcat == {"listdir", "folders", "files", "concat"}

ScanErrors == {"PathNotFound", "NotADirectory", "DecodeError"}

\* A listed column that no frame read carries.
ColumnAbsent ==
    \E c \in Range(columns_to_keep) : \A k \in 1..Len(dfs) : c \notin Range(dfs[k].cols)

\* C6: a root that is missing or no directory, a discovered file that
\* cannot be decoded, or a listed column absent from the consolidated
\* table ends the run at that stage with that error; no later stage runs,
\* and neither output file is written or modified.
C6_FailFast ==
    /\ tree.kind # "dir" =>
         /\ pc \in {"listdir", "aborted"}
         /\ pc = "aborted" =>
              err = (IF tree.kind = "missing" THEN "PathNotFound" ELSE "NotADirectory")
    /\ (\E p \in DiscoveredFiles : ~FileAt(p).decodable) =>
         /\ pc \in {"listdir", "folders", "files", "aborted"}
         /\ pc = "aborted" => err = "DecodeError"
    /\ (pc \notin BeforeConcat /\ err \notin ScanErrors /\ dfs # <<>> /\ ColumnAbsent) =>
         /\ pc \in {"project", "aborted"}
         /\ pc = "aborted" => err = "MissingColumn"
    /\ err \in ScanErrors \cup {"MissingColumn"} =>
         /\ pc = "aborted"
         /\ ~ENABLED Next
         /\ writes = <<>>
         /\ out = before
         /\ console = <<>>

\* A file that cannot be decoded ends a run that had read another file,
\* and the output files left by something else are as they were.
C6_Witness ==
    /\ pc = "aborted"
    /\ err = "DecodeError"
    /\ dfs # <<>>
    /\ out[RawPath].state = "stale"
    /\ out[ImputedPath].state = "stale"

\* The scan ended with no frame read and the concatenation step was taken.
ZeroFilesConcatenated ==
    /\ dfs = <<>>
    /\ pc \notin BeforeConcat
    /\ err \notin ScanErrors

\* C7: with no file discovered the concatenation yields an empty table of
\* 0 rows, and the run then fails at projection as the missing-columns case
\* or produces an empty table; no row count other than 0 is reported.
C7_ZeroFilesEmptyTable ==
    ZeroFilesConcatenated =>
      /\ final_df.rows = <<>>
      /\ err \in {"none", "MissingColumn"}
      /\ \A k \in 1..Len(console) :
           "shape" \in DOMAIN console[k] => console[k].shape[1] = 0

\* C7 as amended: with no file discovered the concatenation itself raises;
\* the run ends there, before the projection, with no table, no output
\* written or modified and nothing printed.
C7_ZeroFilesAbort ==
    /\ ZeroFilesConcatenated =>
         /\ pc = "aborted"
         /\ err = "NoObjectsToConcatenate"
         /\ final_df = EmptyTable
         /\ writes = <<>>
         /\ out = before
         /\ console = <<>>
    /\ err = "NoObjectsToConcatenate" => dfs = <<>>

\* A run over a subject folder that holds no *.parquet entry.
C7_Witness ==
    /\ pc = "aborted"
    /\ err = "NoObjectsToConcatenate"
    /\ SubjectFolders # {}
    /\ \E f \in SubjectFolders : tree.entries[f].entries # <<>>

Ended == pc \in {"done", "aborted"}

ImputeErrors == {"UndefinedMedian", "NoSamples"}

\* C8: a run ends with both output files written by it or with neither.
C8_AllOrNothing ==
    Ended => writes \in {<<>>, <<RawPath, ImputedPath>>}

\* C8 as amended: a run ends with both output files written, or with
\* neither (an error before the first write), or with the raw output alone
\* (the imputation raised: a feature column of no observed value, or a
\* table of no rows); never with the imputed output alone.
C8_RawBeforeImputed ==
    /\ ImputedPath \in Range(writes) => RawPath \in Range(writes)
    /\ Ended =>
         \/ /\ pc = "done"
            /\ err = "none"
            /\ writes = <<RawPath, ImputedPath>>
            /\ \A p \in OutPaths : out[p].state = "written"
         \/ /\ pc = "aborted"
            /\ err \in ImputeErrors
            /\ writes = <<RawPath>>
            /\ out[RawPath].state = "written"
            /\ out[ImputedPath] = before[ImputedPath]
         \/ /\ pc = "aborted"
            /\ err \in ScanErrors \cup {"NoObjectsToConcatenate", "MissingColumn"}
            /\ writes = <<>>
            /\ out = before

\* A run that wrote the raw output and ended on a feature column of no
\* observed value, the imputed output absent.
C8_Witness ==
    /\ pc = "aborted"
    /\ err = "UndefinedMedian"
    /\ out[RawPath].state = "written"
    /\ out[ImputedPath].state = "absent"

\* The entry a row was read from, and the cell the file holds for it.
EntryAt(path) ==
    IF Len(path) = 3 THEN tree.entries[path[2]].entries[path[3]]
    ELSE tree.entries[path[2]].entries[path[3]].entries[path[4]]

SourceCell(origin, c) ==
    LET row == EntryAt(origin[1]).table.rows[origin[2]]
    IN  IF c \in DOMAIN row THEN row[c] ELSE <<>>

C10_RerunIdentical ==
    (run > 1 /\ pc = "done") =>
      /\ Raw = before[RawPath].table
      /\ Imputed = before[ImputedPath].table

SameBag(s, t) ==
    /\ Len(s) = Len(t)
    /\ \A i \in 1..Len(s) :
         Cardinality({j \in 1..Len(s) : s[j] = s[i]})
           = Cardinality({j \in 1..Len(t) : t[j] = s[i]})

\* The rows of the two outputs, paired by row number.
RowPairs(o) ==
    [i \in 1..Len(o[RawPath].table.rows) |->
       <<o[RawPath].table.rows[i], o[ImputedPath].table.rows[i]>>]

\* C10 as amended: a second run over the same tree that completes follows
\* a run that completed, and its outputs hold the columns and the rows of
\* that run's outputs with the same values, up to the order of the rows;
\* a second run that writes the raw output alone rewrites the same rows.
C10_RerunSameRows ==
    /\ (run > 1 /\ pc = "done") =>
         /\ \A p \in OutPaths : before[p].state = "written"
         /\ \A p \in OutPaths : out[p].table.cols = before[p].table.cols
         /\ Len(Imputed.rows) = Len(Raw.rows)
         /\ SameBag(RowPairs(out), RowPairs(before))
    /\ (run > 1 /\ RawPath \in Range(writes)) =>
         /\ before[RawPath].state = "written"
         /\ SameBag(Raw.rows, before[RawPath].table.rows)

\* A second run completed with the rows in another order.
C10_Witness ==
    /\ run > 1
    /\ pc = "done"
    /\ Raw # before[RawPath].table
    /\ Imputed # before[ImputedPath].table

====
